---- MODULE Spec2Model ----
(***************************************************************************)
(* MT5-Wrapper API (src/main.py): the per-request MetaTrader 5 connection  *)
(* (get_mt5_connection) and the endpoints that query the terminal:         *)
(* /latest-deals, /enriched-position-details and /enriched-trade-details.  *)
(*                                                                         *)
(* The terminal is an external collaborator: every query of an endpoint    *)
(* is one step whose return value is drawn from the returns the terminal   *)
(* can give to that query (None, an empty tuple, or matching rows).  The   *)
(* MetaTrader5 session is process-wide: initialize() and shutdown() act on *)
(* the one variable `session`, whichever request calls them.               *)
(*                                                                         *)
(* Scheduling (FastAPI): get_mt5_connection is a synchronous generator     *)
(* dependency, so its two halves run in worker threads; the endpoints are  *)
(* `async def` without any await, so an endpoint body runs on the event    *)
(* loop from its first line to its return without another body in between *)
(* (variable `running`), while the worker threads of other requests keep   *)
(* going.                                                                  *)
(***************************************************************************)
EXTENDS Integers, Sequences, FiniteSets

VARIABLES session, running, req

vars == <<session, running, req>>

(* ----------------------------- bounds ---------------------------------- *)

\* Largest number of deals the terminal returns to one history query, and
\* the number of distinct deal tickets.
MaxDeals == 2

\* Largest `count` asked of /latest-deals (the smallest is -1).
MaxCount == 3

\* Requests in flight at once in the concurrent specification.
NumRequests == 2

(* ------------------------- program constants --------------------------- *)

\* timedelta(minutes=1), in seconds
Minute == 60

\* timedelta(days=90), in days
LookbackDays == 90

\* timedelta(days=90), in seconds
Lookback == LookbackDays * 86400

\* DEAL_ENTRY_IN, the literal 0 of `d.entry == 0`
DEAL_ENTRY_IN == 0

(* --------------------------- Python values ----------------------------- *)

\* None for an Optional value, and a present value
Null == <<>>

Some(v) == <<v>>

\* What a terminal query returns: None (ok = FALSE) or a tuple of rows.
None == [ok |-> FALSE, rows |-> <<>>]

Tuple(rows) == [ok |-> TRUE, rows |-> rows]

\* Python truthiness of a query's return: `not x` for None and for ().
Falsy(ret) == ~ret.ok \/ ret.rows = <<>>

Min(a, b) == IF a <= b THEN a ELSE b

Max(a, b) == IF a >= b THEN a ELSE b

\* seq[:count] with Python's rule for a negative count
Slice(seq, count) ==
    LET n == Len(seq)
        stop == IF count >= 0 THEN Min(count, n) ELSE Max(0, n + count)
    IN  SubSeq(seq, 1, stop)

\* datetime.fromtimestamp(t, tz=timezone.utc).isoformat(), t in seconds
IsoFormat(t) ==
    [day |-> t \div 86400,
     hh  |-> (t % 86400) \div 3600,
     mm  |-> (t % 3600) \div 60,
     ss  |-> t % 60,
     us  |-> 0]

\* datetime.fromtimestamp(ms / 1000, tz=timezone.utc).isoformat()
IsoFormatMsc(ms) ==
    [IsoFormat(ms \div 1000) EXCEPT !.us = (ms % 1000) * 1000]

(* ------------------------- terminal records ---------------------------- *)

\* The value domains the terminal's returns and the requests' arguments are
\* drawn from: Universe for one request at a time, ConcUniverse (one row per
\* query) for concurrent requests.
Universe ==
    [tickets   |-> 1..MaxDeals,
     positions |-> {1, 2},
     entries   |-> {0, 1},
     times     |-> {1, 2},
     levels    |-> {0, 1},
     candles   |-> {0},
     clock     |-> {1},
     counts    |-> (0 - 1)..MaxCount,
     maxDeals  |-> MaxDeals]

ConcUniverse ==
    [tickets   |-> {1},
     positions |-> {1},
     entries   |-> {0},
     times     |-> {1},
     levels    |-> {1},
     candles   |-> {0},
     clock     |-> {1},
     counts    |-> {1},
     maxDeals  |-> 1]

\* A TradePosition row: the fields the endpoints read.
Position(id, level) ==
    [ticket     |-> id,
     time       |-> 1000 + id,
     type       |-> id % 2,
     magic      |-> 70 + id,
     volume     |-> id,
     price_open |-> 500 + id,
     sl         |-> level,
     tp         |-> 2 + level,
     symbol     |-> 30 + id,
     comment    |-> 4 + level]

\* A TradeDeal row.
Deal(ticket, position_id, entry, time) ==
    [ticket      |-> ticket,
     order       |-> 10 + ticket,
     time        |-> time,
     time_msc    |-> time * 1000 + ticket,
     type        |-> ticket % 2,
     entry       |-> entry,
     magic       |-> 70 + position_id,
     position_id |-> position_id,
     reason      |-> 3 + ticket,
     volume      |-> ticket,
     price       |-> 100 + ticket,
     commission  |-> 20 + ticket,
     swap        |-> 40 + ticket,
     profit      |-> 60 + ticket,
     symbol      |-> 30 + position_id]

\* A TradeOrder row.
Order(ticket, level) ==
    [ticket  |-> ticket,
     sl      |-> 6 + level,
     tp      |-> 8 + level,
     comment |-> 10 + level]

Deals(U) ==
    {Deal(t, p, e, tm) : t \in U.tickets, p \in U.positions,
                         e \in U.entries, tm \in U.times}

\* Tuples of at most U.maxDeals deals with distinct tickets, in any order.
DealTuples(U, S) ==
    {s \in UNION {[1..k -> S] : k \in 0..U.maxDeals} :
        \A i, j \in 1..Len(s) : i # j => s[i].ticket # s[j].ticket}

(* --------------------------- terminal queries -------------------------- *)

\* mt5.positions_get(ticket=id)
positions_get(U, id) ==
    {None, Tuple(<<>>)} \cup {Tuple(<<Position(id, l)>>) : l \in U.levels}

\* mt5.history_deals_get(ticket=t)
history_deals_get_ticket(U, t) ==
    {None, Tuple(<<>>)}
        \cup {Tuple(<<d>>) : d \in {x \in Deals(U) : x.ticket = t}}

\* mt5.history_deals_get(position=p)
history_deals_get_position(U, p) ==
    {None} \cup {Tuple(s) :
                    s \in DealTuples(U, {x \in Deals(U) : x.position_id = p})}

\* mt5.history_deals_get(from_date, to_date)
history_deals_get_range(U, from_date, to_date) ==
    {None} \cup {Tuple(s) :
                    s \in DealTuples(U, {x \in Deals(U) :
                            from_date <= x.time /\ x.time <= to_date})}

\* mt5.history_orders_get(ticket=o)
history_orders_get(U, o) ==
    {None, Tuple(<<>>)} \cup {Tuple(<<Order(o, l)>>) : l \in U.levels}

\* mt5.copy_rates_from_pos("EURUSD", TIMEFRAME_M1, 0, 1)
copy_rates_from_pos(U) ==
    {None, Tuple(<<>>)} \cup {Tuple(<<[time |-> c]>>) : c \in U.candles}

\* A query on a session that is not initialized returns None.
Returns(rets) == IF session THEN rets ELSE {None}

(* ------------------------------ requests ------------------------------- *)

Requests == 1..NumRequests

Endpoints == {"latest_deals", "enriched_position", "enriched_trade"}

\* The path parameter of each endpoint.
Args(U, e) ==
    CASE e = "latest_deals"      -> U.counts
      [] e = "enriched_position" -> U.positions
      [] e = "enriched_trade"    -> U.tickets

\* A request that has not arrived, with the locals of the endpoint bodies.
Idle ==
    [pc            |-> "idle",
     endpoint      |-> "",
     arg           |-> 0,
     connected     |-> FALSE,
     status        |-> 0,
     body          |-> <<>>,
     to_date       |-> 0,
     deals         |-> None,
     positions     |-> None,
     position_deals |-> None,
     opening_deal  |-> Null,
     order_info    |-> None,
     queries       |-> 0,
     blind         |-> 0,
     shutdowns     |-> 0]

Init ==
    /\ session = FALSE
    /\ running = 0
    /\ req = [r \in Requests |-> Idle]

(* --------------------------- get_mt5_connection ------------------------ *)

\* A request arrives for one endpoint.
Receive(r, U) ==
    /\ req[r].pc = "idle"
    /\ \E e \in Endpoints : \E a \in Args(U, e) :
          req' = [req EXCEPT ![r] = [@ EXCEPT !.pc = "connect",
                                              !.endpoint = e, !.arg = a]]
    /\ UNCHANGED <<session, running>>

\* mt5.initialize(path=...): on failure HTTPException(503) is raised before
\* the yield, so neither the endpoint nor the finally clause runs.
Initialize(r) ==
    /\ req[r].pc = "connect"
    /\ \/ /\ session' = TRUE
          /\ req' = [req EXCEPT ![r] = [@ EXCEPT !.pc = "ready",
                                                 !.connected = TRUE]]
       \/ /\ UNCHANGED session
          /\ req' = [req EXCEPT ![r] = [@ EXCEPT !.pc = "done",
                                                 !.status = 503]]
    /\ UNCHANGED running

\* The shutdown reached only when the endpoint returns (no finally).
AfterYieldNoFinally(status) == IF status = 200 THEN "teardown" ELSE "done"

\* try: yield mt5 / finally: mt5.shutdown(): where a request goes when its
\* endpoint returns or raises with the given status.
AfterYield(status) == "teardown"

\* The finally clause: mt5.shutdown() closes the process-wide session.  The
\* request is over; its locals and its response are gone.
Shutdown(r) ==
    /\ req[r].pc = "teardown"
    /\ session' = FALSE
    /\ req' = [req EXCEPT ![r] = [Idle EXCEPT !.pc = "done",
                                             !.endpoint = req[r].endpoint,
                                             !.connected = req[r].connected,
                                             !.status = req[r].status,
                                             !.queries = req[r].queries,
                                             !.blind = req[r].blind,
                                             !.shutdowns = req[r].shutdowns + 1]]
    /\ UNCHANGED running

(* ------------------------------ exceptions ----------------------------- *)

HTTPException(status_code) == [cls |-> "HTTPException", status_code |-> status_code]

\* Classes that `except Exception` catches: HTTPException derives from
\* Exception.
ExceptionSubclasses == {"Exception", "HTTPException"}

\* `except Exception as e: raise HTTPException(status_code=500, ...)` around
\* the bodies of the two enrichment endpoints.
ExceptException(exc) ==
    IF exc.cls \in ExceptionSubclasses THEN HTTPException(500) ELSE exc

\* One terminal query issued by a request: counted, and counted as blind
\* when the session is not initialized at that moment.
Asked(q) ==
    [q EXCEPT !.queries = @ + 1, !.blind = @ + (IF session THEN 0 ELSE 1)]

\* The endpoint returns a value: HTTP 200 with that body.
Return(q, body) ==
    [q EXCEPT !.pc = AfterYield(200), !.status = 200, !.body = body]

\* The endpoint raises: the exception's status, no body.
Raise(q, exc) ==
    [q EXCEPT !.pc = AfterYield(exc.status_code), !.status = exc.status_code]

(* ---------------------------- /latest-deals ---------------------------- *)

\* The deals left in the order of the terminal (the sort forgotten).
sorted_deals_unsorted(s) == s

\* The first index of s whose deal has the largest time.
FirstLatest(s) ==
    CHOOSE i \in 1..Len(s) :
        /\ \A j \in 1..Len(s) : s[j].time <= s[i].time
        /\ \A j \in 1..(i - 1) : s[j].time < s[i].time

Without(s, i) == SubSeq(s, 1, i - 1) \o SubSeq(s, i + 1, Len(s))

\* sorted(all_deals, key=lambda d: d.time, reverse=True): Python's sort is
\* stable, also with reverse=True, so deals of equal time keep the order in
\* which the terminal returned them.
RECURSIVE sorted_deals(_)
sorted_deals(s) ==
    IF s = <<>> THEN <<>>
    ELSE LET i == FirstLatest(s)
         IN  <<s[i]>> \o sorted_deals(Without(s, i))

\* sorted_deals[:count]
latest_n_deals(all_deals, count) == Slice(sorted_deals(all_deals), count)

\* deal._asdict() with 'time' and 'time_msc' rewritten as ISO strings
FormatDeal(d) ==
    [d EXCEPT !.time = IsoFormat(d.time), !.time_msc = IsoFormatMsc(d.time_msc)]

\* What get_latest_deals returns for the fetched history: [] for None and
\* for an empty tuple, the formatted first `count` deals otherwise.
deals_list(all_deals, count) ==
    IF ~all_deals.ok \/ Len(all_deals.rows) = 0
    THEN <<>>
    ELSE LET latest == latest_n_deals(all_deals.rows, count)
         IN  [i \in 1..Len(latest) |-> FormatDeal(latest[i])]

\* A fetch that failed answered as an internal error instead of [].
LatestDealsAnswerStrict(q, all_deals, count) ==
    IF ~all_deals.ok THEN Raise(q, HTTPException(500))
    ELSE Return(q, deals_list(all_deals, count))

\* The answer of get_latest_deals: `return []` for a fetch that returned
\* None or nothing, `return deals_list` otherwise; the handler of the try
\* block returns [] as well.
LatestDealsAnswer(q, all_deals, count) == Return(q, deals_list(all_deals, count))

\* to_date: the last EURUSD candle plus one minute, else the system clock
ReferenceTime(rates, now) ==
    IF ~rates.ok \/ Len(rates.rows) = 0 THEN now
    ELSE rates.rows[1].time + Minute

\* get_latest_deals, step 1: copy_rates_from_pos and the reference time
CopyRates(r, U) ==
    /\ req[r].pc = "ready" /\ req[r].endpoint = "latest_deals"
    /\ running = 0
    /\ \E rates \in Returns(copy_rates_from_pos(U)) : \E now \in U.clock :
          req' = [req EXCEPT ![r] =
                    [Asked(@) EXCEPT !.pc = "history",
                                     !.to_date = ReferenceTime(rates, now)]]
    /\ running' = r
    /\ UNCHANGED session

\* get_latest_deals, step 2: history_deals_get(from_date, to_date) and the
\* answer
HistoryDeals(r, U) ==
    /\ req[r].pc = "history" /\ running = r
    /\ \E all_deals \in Returns(history_deals_get_range(U,
                                  req[r].to_date - Lookback, req[r].to_date)) :
          req' = [req EXCEPT ![r] =
                    LatestDealsAnswer([Asked(@) EXCEPT !.deals = all_deals],
                                      all_deals, req[r].arg)]
    /\ running' = 0
    /\ UNCHANGED session

(* ------------------------ the opening deal ----------------------------- *)

\* next((d for d in position_deals if d.entry == 0), None), for a truthy
\* position_deals; None for a falsy one
opening_deal(position_deals) ==
    IF Falsy(position_deals) THEN Null
    ELSE LET rows == position_deals.rows
             ins == {i \in 1..Len(rows) : rows[i].entry = DEAL_ENTRY_IN}
         IN  IF ins = {} THEN Null
             ELSE Some(rows[CHOOSE i \in ins : \A j \in ins : i <= j])

\* The order looked up but never kept: opening_order stays None.
opening_order_never(order_info) == Null

\* order_info[0] if order_info and len(order_info) > 0 else None
opening_order(order_info) ==
    IF Falsy(order_info) THEN Null ELSE Some(order_info.rows[1])

(* --------------------- /enriched-position-details ---------------------- *)

\* enriched_data as initialised from the position
PositionData(position_info) ==
    [ticket     |-> position_info.ticket,
     time       |-> IsoFormat(position_info.time),
     type       |-> position_info.type,
     magic      |-> position_info.magic,
     volume     |-> position_info.volume,
     price_open |-> position_info.price_open,
     sl         |-> position_info.sl,
     tp         |-> position_info.tp,
     symbol     |-> position_info.symbol,
     comment    |-> position_info.comment]

\* A missing order overriding the position's values with zero defaults.
EnrichedPositionZeroed(position_info, order) ==
    IF order = Null
    THEN [PositionData(position_info) EXCEPT !.sl = 0, !.tp = 0]
    ELSE [PositionData(position_info) EXCEPT !.sl = order[1].sl,
                                             !.tp = order[1].tp,
                                             !.comment = order[1].comment]

\* enriched_data after the opening order, when found, has overridden sl, tp
\* and comment
EnrichedPosition(position_info, order) ==
    IF order = Null THEN PositionData(position_info)
    ELSE [PositionData(position_info) EXCEPT !.sl = order[1].sl,
                                             !.tp = order[1].tp,
                                             !.comment = order[1].comment]

\* step 1: positions_get(ticket=position_id); `not positions` raises
\* HTTPException(404) inside the try block
PositionLookup(r, U) ==
    /\ req[r].pc = "ready" /\ req[r].endpoint = "enriched_position"
    /\ running = 0
    /\ \E positions \in Returns(positions_get(U, req[r].arg)) :
          LET q == [Asked(req[r]) EXCEPT !.positions = positions]
          IN  IF Falsy(positions)
              THEN /\ req' = [req EXCEPT ![r] =
                                Raise(q, ExceptException(HTTPException(404)))]
                   /\ running' = 0
              ELSE /\ req' = [req EXCEPT ![r] = [q EXCEPT !.pc = "position_deals"]]
                   /\ running' = r
    /\ UNCHANGED session

\* step 3: history_deals_get(position=position_id) and the opening deal
PositionDeals(r, U) ==
    /\ req[r].pc = "position_deals" /\ running = r
    /\ \E position_deals \in Returns(history_deals_get_position(U, req[r].arg)) :
          LET opening == opening_deal(position_deals)
              q == [Asked(req[r]) EXCEPT !.position_deals = position_deals,
                                         !.opening_deal = opening]
          IN  IF opening = Null
              THEN /\ req' = [req EXCEPT ![r] =
                                Return(q, <<EnrichedPosition(q.positions.rows[1], Null)>>)]
                   /\ running' = 0
              ELSE /\ req' = [req EXCEPT ![r] = [q EXCEPT !.pc = "position_order"]]
                   /\ running' = r
    /\ UNCHANGED session

\* history_orders_get(ticket=opening_deal.order) and the merged answer
PositionOrder(r, U) ==
    /\ req[r].pc = "position_order" /\ running = r
    /\ \E order_info \in Returns(history_orders_get(U, req[r].opening_deal[1].order)) :
          LET q == [Asked(req[r]) EXCEPT !.order_info = order_info]
          IN  req' = [req EXCEPT ![r] =
                        Return(q, <<EnrichedPosition(q.positions.rows[1],
                                                     opening_order(order_info))>>)]
    /\ running' = 0
    /\ UNCHANGED session

(* ----------------------- /enriched-trade-details ----------------------- *)

\* The opening side mirrored from the closing deal when no opening deal is
\* found.
EnrichedTradeMirrored(closing_deal, opening, order) ==
    [deal_ticket    |-> closing_deal.ticket,
     position_id    |-> closing_deal.position_id,
     symbol         |-> closing_deal.symbol,
     volume         |-> closing_deal.volume,
     magic_number   |-> closing_deal.magic,
     profit         |-> closing_deal.profit,
     commission     |-> closing_deal.commission,
     swap           |-> closing_deal.swap,
     close_price    |-> closing_deal.price,
     close_time_utc |-> IsoFormat(closing_deal.time),
     close_reason   |-> closing_deal.reason,
     order_type     |-> IF opening # Null THEN opening[1].type ELSE closing_deal.type,
     open_price     |-> IF opening # Null THEN Some(opening[1].price)
                        ELSE Some(closing_deal.price),
     open_time_utc  |-> IF opening # Null THEN Some(IsoFormat(opening[1].time))
                        ELSE Some(IsoFormat(closing_deal.time)),
     stop_loss      |-> IF order # Null THEN order[1].sl ELSE 0,
     take_profit    |-> IF order # Null THEN order[1].tp ELSE 0]

\* enriched_data of get_enriched_trade_details
EnrichedTrade(closing_deal, opening, order) ==
    [deal_ticket    |-> closing_deal.ticket,
     position_id    |-> closing_deal.position_id,
     symbol         |-> closing_deal.symbol,
     volume         |-> closing_deal.volume,
     magic_number   |-> closing_deal.magic,
     profit         |-> closing_deal.profit,
     commission     |-> closing_deal.commission,
     swap           |-> closing_deal.swap,
     close_price    |-> closing_deal.price,
     close_time_utc |-> IsoFormat(closing_deal.time),
     close_reason   |-> closing_deal.reason,
     order_type     |-> IF opening # Null THEN opening[1].type ELSE closing_deal.type,
     open_price     |-> IF opening # Null THEN Some(opening[1].price) ELSE Null,
     open_time_utc  |-> IF opening # Null THEN Some(IsoFormat(opening[1].time)) ELSE Null,
     stop_loss      |-> IF order # Null THEN order[1].sl ELSE 0,
     take_profit    |-> IF order # Null THEN order[1].tp ELSE 0]

\* history_deals_get(ticket=deal_ticket); a falsy answer raises
\* HTTPException(404) inside the try block
DealLookup(r, U) ==
    /\ req[r].pc = "ready" /\ req[r].endpoint = "enriched_trade"
    /\ running = 0
    /\ \E deal_info \in Returns(history_deals_get_ticket(U, req[r].arg)) :
          LET q == [Asked(req[r]) EXCEPT !.deals = deal_info]
          IN  IF Falsy(deal_info)
              THEN /\ req' = [req EXCEPT ![r] =
                                Raise(q, ExceptException(HTTPException(404)))]
                   /\ running' = 0
              ELSE /\ req' = [req EXCEPT ![r] = [q EXCEPT !.pc = "trade_deals"]]
                   /\ running' = r
    /\ UNCHANGED session

\* history_deals_get(position=closing_deal.position_id) and the opening deal
TradeDeals(r, U) ==
    /\ req[r].pc = "trade_deals" /\ running = r
    /\ \E position_deals \in
            Returns(history_deals_get_position(U, req[r].deals.rows[1].position_id)) :
          LET opening == opening_deal(position_deals)
              q == [Asked(req[r]) EXCEPT !.position_deals = position_deals,
                                         !.opening_deal = opening]
          IN  IF opening = Null
              THEN /\ req' = [req EXCEPT ![r] =
                                Return(q, <<EnrichedTrade(q.deals.rows[1], Null, Null)>>)]
                   /\ running' = 0
              ELSE /\ req' = [req EXCEPT ![r] = [q EXCEPT !.pc = "trade_order"]]
                   /\ running' = r
    /\ UNCHANGED session

\* history_orders_get(ticket=opening_deal.order) and the answer
TradeOrder(r, U) ==
    /\ req[r].pc = "trade_order" /\ running = r
    /\ \E order_info \in Returns(history_orders_get(U, req[r].opening_deal[1].order)) :
          LET q == [Asked(req[r]) EXCEPT !.order_info = order_info]
          IN  req' = [req EXCEPT ![r] =
                        Return(q, <<EnrichedTrade(q.deals.rows[1], q.opening_deal,
                                                  opening_order(order_info))>>)]
    /\ running' = 0
    /\ UNCHANGED session

(* --------------------------- specifications ---------------------------- *)

\* Every step of request r, its terminal returns drawn from U.
Step(r, U) ==
    \/ Receive(r, U)
    \/ Initialize(r)
    \/ CopyRates(r, U)
    \/ HistoryDeals(r, U)
    \/ PositionLookup(r, U)
    \/ PositionDeals(r, U)
    \/ PositionOrder(r, U)
    \/ DealLookup(r, U)
    \/ TradeDeals(r, U)
    \/ TradeOrder(r, U)
    \/ Shutdown(r)

\* One request at a time, over the whole universe of terminal returns.
Next == Step(1, Universe)

Spec == Init /\ [][Next]_vars

\* NumRequests concurrent requests, one row per query.
ConcNext == \E r \in Requests : Step(r, ConcUniverse)

\* The server does not stop while a step can be taken: uvicorn's event loop
\* and the worker threads run whatever is runnable.  Every request has
\* finitely many steps, so this serves every request to its end.
ConcSpec == Init /\ [][ConcNext]_vars /\ WF_vars(ConcNext)

(* ------------------------------- claims -------------------------------- *)

\* The endpoint body of request r has finished and its answer is fixed; the
\* connection is not yet torn down.
Answered(r, e) == req[r].pc = "teardown" /\ req[r].endpoint = e

\* Order of two formatted instants (ISO-8601 strings in one offset order as
\* their instants do).
IsoBefore(a, b) ==
    LET ka == <<a.day, a.hh, a.mm, a.ss, a.us>>
        kb == <<b.day, b.hh, b.mm, b.ss, b.us>>
    IN  \E i \in 1..5 : ka[i] < kb[i] /\ \A j \in 1..(i - 1) : ka[j] = kb[j]

\* The rows of a history answer that are "in" deals.
InDeals(position_deals) ==
    {position_deals.rows[i] : i \in {j \in 1..Len(position_deals.rows) :
                                      position_deals.rows[j].entry = DEAL_ENTRY_IN}}

\* C1 (as claimed): when the terminal returns no record for the requested
\* position (enrich_position) or deal (enrich_deal), the caller receives
\* HTTP 404, never HTTP 500.
C1_NotFoundIs404 ==
    \A r \in Requests :
        \/ Answered(r, "enriched_position") /\ req[r].positions = Tuple(<<>>)
        \/ Answered(r, "enriched_trade") /\ req[r].deals = Tuple(<<>>)
        => req[r].status = 404

\* C2 (as claimed): with two or more "in" deals for the position, in any
\* order, the opening deal is the "in" deal of smallest time: the order
\* looked up is that deal's order, and enrich_deal's open_time_utc is that
\* deal's time.
C2_OpeningDealIsEarliestIn ==
    \A r \in Requests :
        /\ Answered(r, "enriched_position") \/ Answered(r, "enriched_trade")
        /\ req[r].status = 200
        /\ Cardinality(InDeals(req[r].position_deals)) >= 2
        => /\ req[r].opening_deal # Null
           /\ \A d \in InDeals(req[r].position_deals) :
                 req[r].opening_deal[1].time <= d.time
           /\ req[r].endpoint = "enriched_trade" =>
                 \A d \in InDeals(req[r].position_deals) :
                    ~IsoBefore(IsoFormat(d.time), req[r].body[1].open_time_utc[1])

\* C3: enrich_position on an existing position succeeds with the position's
\* own sl, tp and comment when the deal history is empty or None, or holds
\* no "in" deal, or the opening deal's order lookup is empty or None; it
\* fails only when the position is not found.
C3_PositionDegrades ==
    \A r \in Requests :
        Answered(r, "enriched_position") =>
            LET q == req[r]
                found == ~Falsy(q.positions)
                noHistory == Falsy(q.position_deals)
                noIn == ~noHistory /\ InDeals(q.position_deals) = {}
                noOrder == /\ ~noHistory /\ InDeals(q.position_deals) # {}
                           /\ Falsy(q.order_info)
            IN  /\ q.status # 200 => ~found
                /\ found /\ (noHistory \/ noIn \/ noOrder) =>
                      /\ q.status = 200
                      /\ Len(q.body) = 1
                      /\ q.body[1].sl = q.positions.rows[1].sl
                      /\ q.body[1].tp = q.positions.rows[1].tp
                      /\ q.body[1].comment = q.positions.rows[1].comment

\* C3's case: an "in" deal was found, its order lookup came back empty on
\* an initialized session, and the position's values were returned.
C3_Witness ==
    \E r \in Requests :
        /\ Answered(r, "enriched_position")
        /\ req[r].status = 200
        /\ req[r].queries = 3 /\ req[r].blind = 0
        /\ InDeals(req[r].position_deals) # {}
        /\ req[r].order_info = Tuple(<<>>)
        /\ req[r].body[1].sl = req[r].positions.rows[1].sl

\* C4: with exactly one "in" deal in the history and its order found,
\* enrich_position returns the order's sl, tp and comment whatever the
\* position's own, and ticket, time, type, magic, volume, price_open and
\* symbol of the position.
C4_OrderOverrides ==
    \A r \in Requests :
        LET q == req[r] IN
        /\ Answered(r, "enriched_position")
        /\ ~Falsy(q.positions)
        /\ ~Falsy(q.position_deals)
        /\ Cardinality(InDeals(q.position_deals)) = 1
        /\ ~Falsy(q.order_info)
        => LET p == q.positions.rows[1]
               o == q.order_info.rows[1]
               b == q.body[1]
           IN  /\ q.status = 200
               /\ \A d \in InDeals(q.position_deals) : o.ticket = d.order
               /\ b.sl = o.sl /\ b.tp = o.tp /\ b.comment = o.comment
               /\ b.ticket = p.ticket /\ b.time = IsoFormat(p.time)
               /\ b.type = p.type /\ b.magic = p.magic /\ b.volume = p.volume
               /\ b.price_open = p.price_open /\ b.symbol = p.symbol

\* C4's case: one "in" deal next to an "out" deal, the order found, and an
\* answer whose sl is the order's and not the position's.
C4_Witness ==
    \E r \in Requests :
        LET q == req[r] IN
        /\ Answered(r, "enriched_position")
        /\ q.status = 200
        /\ ~Falsy(q.position_deals)
        /\ Len(q.position_deals.rows) = 2
        /\ Cardinality(InDeals(q.position_deals)) = 1
        /\ ~Falsy(q.order_info)
        /\ q.body[1].sl = q.order_info.rows[1].sl
        /\ q.body[1].sl # q.positions.rows[1].sl

\* C5 (as claimed): latest_deals(count) never returns more than count
\* records, for every integer count the endpoint accepts (a count below zero
\* is read here in the claim's favour, as allowing no record at all);
\* exactly count when 0 <= count <= the number n of deals in the window, all
\* n when count > n.
C5_NeverMoreThanCount ==
    \A r \in Requests :
        Answered(r, "latest_deals") =>
            LET n == Len(req[r].deals.rows)
                count == req[r].arg
            IN  /\ Len(req[r].body) <= Max(count, 0)
                /\ 0 <= count /\ count <= n => Len(req[r].body) = count
                /\ count > n => Len(req[r].body) = n

\* Two adjacent records a, b of an answer tie in time.
TimeTie(a, b) == ~IsoBefore(a.time, b.time) /\ ~IsoBefore(b.time, a.time)

\* The place of the deal with this ticket in what the terminal returned.
PlaceOf(all_deals, ticket) ==
    CHOOSE i \in 1..Len(all_deals.rows) : all_deals.rows[i].ticket = ticket

\* C6 (as claimed): adjacent records a before b of latest_deals have
\* a.time > b.time, or equal times and a.ticket > b.ticket.
C6_TiesByTicketDescending ==
    \A r \in Requests :
        Answered(r, "latest_deals") =>
            \A i \in 1..(Len(req[r].body) - 1) :
                LET a == req[r].body[i]
                    b == req[r].body[i + 1]
                IN  \/ IsoBefore(b.time, a.time)
                    \/ TimeTie(a, b) /\ a.ticket > b.ticket

\* C6 (amended): adjacent records a before b of latest_deals have
\* a.time >= b.time, and records of equal time stand in the order in which
\* the terminal returned them.
C6_TimeDescendingStable ==
    \A r \in Requests :
        Answered(r, "latest_deals") =>
            \A i \in 1..(Len(req[r].body) - 1) :
                LET a == req[r].body[i]
                    b == req[r].body[i + 1]
                IN  /\ ~IsoBefore(a.time, b.time)
                    /\ TimeTie(a, b) =>
                          PlaceOf(req[r].deals, a.ticket) < PlaceOf(req[r].deals, b.ticket)

\* C6's case: an answer of two records that tie in time, the first with the
\* smaller ticket, and a later record before them in the terminal's order.
C6_Witness ==
    \E r \in Requests :
        /\ Answered(r, "latest_deals")
        /\ Len(req[r].body) = 2
        /\ TimeTie(req[r].body[1], req[r].body[2])
        /\ req[r].body[1].ticket < req[r].body[2].ticket

\* C7 (as claimed): a history fetch that returns None gives the caller an
\* error outcome, never the empty sequence of an empty successful fetch.
C7_FetchFailureIsError ==
    \A r \in Requests :
        Answered(r, "latest_deals") /\ ~req[r].deals.ok => req[r].status # 200

\* C7 (amended): a fetch that returns None and a fetch that returns no deals
\* get the same answer, HTTP 200 with an empty sequence; latest_deals gives
\* no error outcome.
C7_FetchFailureIsEmptySuccess ==
    \A r \in Requests :
        Answered(r, "latest_deals") =>
            /\ req[r].status = 200
            /\ Falsy(req[r].deals) => req[r].body = <<>>

\* C7's case: the session is initialized, the rates were read, the history
\* fetch returned None, and the answer is HTTP 200 with [].
C7_Witness ==
    \E r \in Requests :
        /\ Answered(r, "latest_deals")
        /\ req[r].blind = 0
        /\ req[r].deals = None
        /\ req[r].arg > 0
        /\ req[r].status = 200 /\ req[r].body = <<>>

\* C8: enrich_deal on an existing closing deal succeeds when opening data
\* is missing.  Without an "in" deal (or with an empty or None position
\* history): open_price and open_time_utc are null, order_type is the
\* closing deal's, stop_loss = take_profit = 0.  With an "in" deal whose
\* order lookup is empty: stop_loss = take_profit = 0 and open_price and
\* open_time_utc are an "in" deal's.  In both, profit, commission, swap,
\* close_price, close_time_utc and close_reason are the closing deal's.
C8_TradeDegrades ==
    \A r \in Requests :
        LET q == req[r]
            noIn == Falsy(q.position_deals) \/ InDeals(q.position_deals) = {}
        IN
        /\ Answered(r, "enriched_trade")
        /\ ~Falsy(q.deals)
        /\ noIn \/ Falsy(q.order_info)
        => LET c == q.deals.rows[1]
               b == q.body[1]
           IN  /\ q.status = 200
               /\ Len(q.body) = 1
               /\ b.stop_loss = 0 /\ b.take_profit = 0
               /\ noIn => /\ b.open_price = Null
                          /\ b.open_time_utc = Null
                          /\ b.order_type = c.type
               /\ ~noIn => \E d \in InDeals(q.position_deals) :
                              /\ b.open_price = Some(d.price)
                              /\ b.open_time_utc = Some(IsoFormat(d.time))
                              /\ b.order_type = d.type
               /\ b.profit = c.profit /\ b.commission = c.commission
               /\ b.swap = c.swap /\ b.close_price = c.price
               /\ b.close_time_utc = IsoFormat(c.time)
               /\ b.close_reason = c.reason

\* C8's case: the closing deal is the only deal left of its position (the
\* "in" deal purged), and the answer has no opening side.
C8_Witness ==
    \E r \in Requests :
        LET q == req[r] IN
        /\ Answered(r, "enriched_trade")
        /\ q.blind = 0
        /\ ~Falsy(q.deals)
        /\ q.position_deals = Tuple(<<q.deals.rows[1]>>)
        /\ q.deals.rows[1].entry # DEAL_ENTRY_IN
        /\ q.status = 200
        /\ q.body[1].open_price = Null

\* What holds of one request's connection at every moment: at most one
\* shutdown, only after the endpoint body has finished with an outcome and
\* only for a request whose initialize succeeded; a finished request whose
\* initialize succeeded has shut down; one whose initialize failed ended
\* with HTTP 503 and issued no terminal query.
ConnectionScoped(r) ==
    /\ req[r].shutdowns <= 1
    /\ req[r].shutdowns = 1 =>
          req[r].connected /\ req[r].pc = "done" /\ req[r].status # 0
    /\ req[r].pc = "done" /\ req[r].connected => req[r].shutdowns = 1
    /\ req[r].pc = "done" /\ ~req[r].connected =>
          req[r].status = 503 /\ req[r].queries = 0
    /\ req[r].status = 503 => ~req[r].connected /\ req[r].pc = "done"

\* C9: every request whose mt5.initialize succeeded eventually performs
\* exactly one mt5.shutdown, after its endpoint body has finished, whatever
\* the outcome; a request whose initialize failed ends with HTTP 503 and no
\* terminal query.  (A shutdown, once counted, stays counted, and requests
\* are finitely many: "each eventually" is "from some moment on, all".)
C9_ShutdownOnEveryExit ==
    /\ [](\A r \in Requests : ConnectionScoped(r))
    /\ <>[](\A r \in Requests :
               req[r].connected => req[r].shutdowns = 1 /\ req[r].pc = "done")

\* C9's case: one request left through the internal-error exit and has shut
\* down once, another was refused with HTTP 503.
C9_Witness ==
    \E r1, r2 \in Requests :
        /\ req[r1].pc = "done" /\ req[r1].status = 500 /\ req[r1].shutdowns = 1
        /\ req[r2].pc = "done" /\ req[r2].status = 503 /\ req[r2].queries = 0

\* C10 (as claimed): no request issues a terminal query while the
\* process-wide session is shut down.
C10_SessionInitializedAtEveryQuery ==
    \A r \in Requests : req[r].blind = 0

====
